---- MODULE Spec2Model ----
(***************************************************************************)
(* Vessel / oil-spill correlation (AiSS).  Model of the candidate matcher  *)
(* find_candidates (spatial join "within" + look-back window), of the      *)
(* prime-suspect derivation of the analytics tab and of the sections of    *)
(* the main script that call them, in the three source variants ais.py,    *)
(* app.py and part_000, and of the loaders load_spills_data and            *)
(* load_ais_data with the stop test and the filters of the main script,    *)
(* of the vessel type table of app.py and of the report block of part_000  *)
(* (strfdelta, generate_docx_report).                                      *)
(*                                                                         *)
(* Specifications: Spec (matcher and analytics on arbitrary frames),       *)
(* SpecTypes (the same with a VesselType column), SpecGeometry (the same   *)
(* with an invalid polygon), SpecRun (sections of ais.py), SpecPart        *)
(* (sections of part_000), SpecLoad (ais.py from the data files) and       *)
(* SpecVariants (the three scripts from the same data files).              *)
(*                                                                         *)
(* Time is counted in whole hours.  A data frame is a record               *)
(*   [kind, cols, rows]                                                    *)
(* kind "None"  : the Python value None (app.py loaders on failure)        *)
(* kind "frame" : a (Geo)DataFrame; cols = {} is the column-less           *)
(*                gpd.GeoDataFrame(); rows is the sequence of its rows     *)
(* kind "error" : the call raised an exception                             *)
(* A data file is a record [readable, cols, rows] of its columns and raw   *)
(* records; a timestamp text is a record [parses, instant].                *)
(***************************************************************************)
EXTENDS Integers, Sequences, FiniteSets, TLC

VARIABLES spills_gdf, vessels_gdf, time_window_hours,
          candidates_df, candidates_df_for_analytics, prime_suspects_df,
          candidate_vessels_fg, display_df,
          ship_incident_counts, ship_area_sum, spill_candidate_counts, pc,
          spills_file, ais_file, date_range, selected_vessels_display,
          st_errors, VesselType, predicate_raises,
          vessel_type_analysis, reportable_incidents_df, selected_spill_id,
          report_bytes

\* The data files, the sidebar selections, the st.error messages shown,
\* the VesselType column of the AIS table, and whether the geometry library
\* of the installation raises when a predicate meets an invalid polygon.
run_inputs ==
  <<spills_file, ais_file, date_range, selected_vessels_display, st_errors,
    VesselType, predicate_raises>>

\* The vessel type table of app.py and the report block of part_000.
report_outputs ==
  <<vessel_type_analysis, reportable_incidents_df, selected_spill_id,
    report_bytes>>

vars == <<spills_gdf, vessels_gdf, time_window_hours,
          candidates_df, candidates_df_for_analytics, prime_suspects_df,
          candidate_vessels_fg, display_df,
          ship_incident_counts, ship_area_sum, spill_candidate_counts, pc,
          run_inputs, report_outputs>>

(***************************************************************************)
(* Bounds of the model.                                                    *)
(***************************************************************************)
MaxRows == 2
MaxTime == 2
MaxWindow == 2
\* Length of a calendar day in the hours of the model.
HoursPerDay == 2

Times == 0..MaxTime
Days == 0..(MaxTime \div HoursPerDay)
Windows == 1..MaxWindow

(***************************************************************************)
(* Input catalogue: two overlapping square slicks and three positions,     *)
(* reported by two vessels.                                                *)
(*   <<2,2>> strictly inside both squares                                  *)
(*   <<3,2>> strictly inside S2, on the eastern edge of S1                 *)
(*   <<2,5>> outside both (north of them)                                  *)
(***************************************************************************)
SpillOrder == <<"S1", "S2">>
SpillIds == {SpillOrder[i] : i \in DOMAIN SpillOrder}
SpillGeometry ==
  [s \in SpillIds |->
     IF s = "S1" THEN [xmin |-> 0, ymin |-> 0, xmax |-> 3, ymax |-> 3]
                 ELSE [xmin |-> 1, ymin |-> 1, xmax |-> 4, ymax |-> 4]]
SpillArea == [s \in SpillIds |-> IF s = "S1" THEN 2 ELSE 5]
\* Who reports from where: both vessels cross the overlap, V2 also sails
\* along the edge of S1 inside S2, V1 also reports from outside.
Positions ==
  {[mmsi |-> "V1", geometry |-> <<2, 2>>], [mmsi |-> "V2", geometry |-> <<2, 2>>],
   [mmsi |-> "V2", geometry |-> <<3, 2>>], [mmsi |-> "V1", geometry |-> <<2, 5>>]}
Points == {p.geometry : p \in Positions}
Mmsis == {p.mmsi : p \in Positions}
DetectionTimes == {MaxTime - 1, MaxTime}

SpillCols == {"spill_id", "geometry", "detection_date", "area_sq_km"}
VesselCols == {"mmsi", "geometry", "timestamp"}
CandidateCols == VesselCols \cup SpillCols \cup {"index_right"}

NoneValue == [kind |-> "None", cols |-> {}, rows |-> <<>>]
Undefined == [kind |-> "undefined", cols |-> {}, rows |-> <<>>]
Raised == [kind |-> "error", cols |-> {}, rows |-> <<>>]
EmptyGeoDataFrame == [kind |-> "frame", cols |-> {}, rows |-> <<>>]
Frame(cols, rows) == [kind |-> "frame", cols |-> cols, rows |-> rows]

SpillRow(s, d) ==
  [spill_id |-> s, geometry |-> SpillGeometry[s], detection_date |-> d,
   area_sq_km |-> SpillArea[s]]

\* Spill frames: any sub-collection of the catalogue, in catalogue order.
SpillRowSeqs ==
  {<<>>}
  \cup {<<SpillRow(s, d)>> : s \in SpillIds, d \in DetectionTimes}
  \cup {<<SpillRow("S1", d1), SpillRow("S2", d2)>> :
          d1 \in DetectionTimes, d2 \in DetectionTimes}

\* Vessel frames: up to MaxRows position reports; the index label of a row
\* is its position in the file (RangeIndex of read_csv), starting at 0.
VesselCells ==
  {[mmsi |-> p.mmsi, geometry |-> p.geometry, timestamp |-> t] :
     p \in Positions, t \in Times}
VesselRowSeqs ==
  UNION {{[i \in 1..n |->
             [index |-> i - 1, mmsi |-> f[i].mmsi, geometry |-> f[i].geometry,
              timestamp |-> f[i].timestamp]] : f \in [1..n -> VesselCells]}
         : n \in 0..MaxRows}

Empty(df) == df.rows = <<>>

(***************************************************************************)
(* gpd.sjoin(vessels_gdf, spills_gdf, predicate='within')                  *)
(***************************************************************************)
\* Variants of the containment test used to probe the properties: a test of
\* the longitude range only, and the boundary-inclusive "intersects".
Within_longitude_only(pt, poly) ==
  poly.xmin < pt[1] /\ pt[1] < poly.xmax

Within_inclusive(pt, poly) ==
  /\ poly.xmin <= pt[1] /\ pt[1] <= poly.xmax
  /\ poly.ymin <= pt[2] /\ pt[2] <= poly.ymax

\* shapely "within" of a point and a polygon: the point lies in the
\* interior of the polygon; a point on the boundary is not within it.
Within(pt, poly) ==
  /\ poly.xmin < pt[1] /\ pt[1] < poly.xmax
  /\ poly.ymin < pt[2] /\ pt[2] < poly.ymax

\* A polygon whose ring bounds no region (self-intersecting or collapsed):
\* no point is within it when the predicate evaluates, and the predicate
\* may raise instead, which nothing in find_candidates catches.
is_valid(poly) == poly.xmin < poly.xmax /\ poly.ymin < poly.ymax

JoinedRow(v, s) ==
  [index |-> v.index, mmsi |-> v.mmsi, geometry |-> v.geometry,
   timestamp |-> v.timestamp, spill_id |-> s.spill_id,
   detection_date |-> s.detection_date, area_sq_km |-> s.area_sq_km]

\* Variant of the join that stops at the first polygon holding a position.
RECURSIVE sjoin_rows_first_match(_, _, _, _)
sjoin_rows_first_match(left, right, i, j) ==
  IF i > Len(left) THEN <<>>
  ELSE IF j > Len(right) THEN sjoin_rows_first_match(left, right, i + 1, 1)
  ELSE IF Within(left[i].geometry, right[j].geometry)
         THEN <<JoinedRow(left[i], right[j])>>
              \o sjoin_rows_first_match(left, right, i + 1, 1)
         ELSE sjoin_rows_first_match(left, right, i, j + 1)

RECURSIVE sjoin_rows(_, _, _, _)
sjoin_rows(left, right, i, j) ==
  IF i > Len(left) THEN <<>>
  ELSE IF j > Len(right) THEN sjoin_rows(left, right, i + 1, 1)
  ELSE (IF Within(left[i].geometry, right[j].geometry)
          THEN <<JoinedRow(left[i], right[j])>> ELSE <<>>)
       \o sjoin_rows(left, right, i, j + 1)

\* The result keeps the index of the left frame: a position inside k
\* polygons gives k rows carrying the same index label.
sjoin(left, right) ==
  IF left.kind # "frame" \/ right.kind # "frame" THEN Raised
  ELSE IF ~("geometry" \in left.cols /\ "geometry" \in right.cols) THEN Raised
  ELSE IF /\ predicate_raises /\ left.rows # <<>>
          /\ \E j \in 1..Len(right.rows) : ~is_valid(right.rows[j].geometry)
         THEN Raised
  ELSE Frame(CandidateCols, sjoin_rows(left.rows, right.rows, 1, 1))

\* Variants of the time filter: without the look-back bound, and with the
\* look-back bound reversed.
InWindow_no_lower_bound(r, w) ==
  r.timestamp <= r.detection_date

InWindow_older_than_window(r, w) ==
  /\ r.timestamp <= r.detection_date
  /\ r.timestamp <= r.detection_date - w

InWindow(r, w) ==
  /\ r.timestamp <= r.detection_date
  /\ r.timestamp >= r.detection_date - w

(***************************************************************************)
(* find_candidates, one definition per source variant.                     *)
(***************************************************************************)
\* Variant of find_candidates without the guard on empty inputs.
find_candidates_ais_unguarded(spills, vessels, w) ==
  IF spills.kind # "frame" \/ vessels.kind # "frame" THEN Raised
  ELSE LET candidates == sjoin(vessels, spills) IN
       IF candidates.kind = "error" THEN Raised
       ELSE IF Empty(candidates) THEN EmptyGeoDataFrame
       ELSE Frame(candidates.cols,
                  SelectSeq(candidates.rows, LAMBDA r : InWindow(r, w)))

find_candidates_ais(spills, vessels, w) ==
  IF spills.kind # "frame" \/ vessels.kind # "frame" THEN Raised
  ELSE IF Empty(spills) \/ Empty(vessels) THEN EmptyGeoDataFrame
  ELSE LET candidates == sjoin(vessels, spills) IN
       IF candidates.kind = "error" THEN Raised
       ELSE IF Empty(candidates) THEN EmptyGeoDataFrame
       ELSE Frame(candidates.cols,
                  SelectSeq(candidates.rows, LAMBDA r : InWindow(r, w)))

find_candidates_app(spills, vessels, w) ==
  IF spills.kind = "None" \/ vessels.kind = "None" THEN EmptyGeoDataFrame
  ELSE LET candidates == sjoin(vessels, spills) IN
       IF candidates.kind = "error" THEN Raised
       ELSE IF Empty(candidates) THEN EmptyGeoDataFrame
       ELSE Frame(candidates.cols,
                  SelectSeq(candidates.rows, LAMBDA r : InWindow(r, w)))

find_candidates_part(spills, vessels, w) ==
  IF spills.kind # "frame" \/ vessels.kind # "frame" THEN Raised
  ELSE IF Empty(spills) \/ Empty(vessels) THEN EmptyGeoDataFrame
  ELSE LET candidates == sjoin(vessels, spills) IN
       IF candidates.kind = "error" THEN Raised
       ELSE IF Empty(candidates) THEN EmptyGeoDataFrame
       ELSE Frame(candidates.cols,
                  SelectSeq(candidates.rows, LAMBDA r : InWindow(r, w)))

(***************************************************************************)
(* pandas helpers used by the table and the analytics tabs.                *)
(***************************************************************************)
RECURSIVE Pick(_, _, _)
Pick(rows, keep, i) ==
  IF i > Len(rows) THEN <<>>
  ELSE (IF i \in keep THEN <<rows[i]>> ELSE <<>>) \o Pick(rows, keep, i + 1)

\* Variants of the de-duplication used to probe the rollups: none at all, by
\* vessel only, and by every column (drop_duplicates() without subset).
drop_duplicates_keep_all(rows) == rows

drop_duplicates_by_mmsi(rows) ==
  Pick(rows,
       {i \in 1..Len(rows) : \A j \in 1..(i - 1) : rows[j].mmsi # rows[i].mmsi},
       1)

drop_duplicates_whole_row(rows) ==
  Pick(rows,
       {i \in 1..Len(rows) :
          \A j \in 1..(i - 1) :
             [rows[j] EXCEPT !.index = 0] # [rows[i] EXCEPT !.index = 0]},
       1)

\* df.drop_duplicates(subset=['mmsi', 'spill_id']): first occurrence kept.
drop_duplicates(rows) ==
  Pick(rows,
       {i \in 1..Len(rows) :
          \A j \in 1..(i - 1) :
             <<rows[j].mmsi, rows[j].spill_id>> # <<rows[i].mmsi, rows[i].spill_id>>},
       1)

RECURSIVE SumArea(_)
SumArea(rows) ==
  IF rows = <<>> THEN 0 ELSE Head(rows).area_sq_km + SumArea(Tail(rows))

RowSet(rows) == {rows[i] : i \in 1..Len(rows)}

\* unique_incidents.groupby('mmsi').size()
\* Variant of the per-vessel count that marks each vessel once instead of
\* counting its incidents.
groupby_mmsi_presence(rows) ==
  [m \in {r.mmsi : r \in RowSet(rows)} |-> 1]

groupby_mmsi_size(rows) ==
  [m \in {r.mmsi : r \in RowSet(rows)} |->
     Len(SelectSeq(rows, LAMBDA r : r.mmsi = m))]

\* unique_incidents.groupby('mmsi')['area_sq_km'].sum()
groupby_mmsi_area_sum(rows) ==
  [m \in {r.mmsi : r \in RowSet(rows)} |->
     SumArea(SelectSeq(rows, LAMBDA r : r.mmsi = m))]

\* Variant of the per-spill count that counts rows (size) instead of
\* distinct vessels.
groupby_spill_size(rows) ==
  [s \in {r.spill_id : r \in RowSet(rows)} |->
     Len(SelectSeq(rows, LAMBDA r : r.spill_id = s))]

\* A missing value of a text column, and the vessel types of the catalogue.
NaN == "NaN"
VesselTypes == {"Tanker", "Cargo"}

\* The VesselType cell of a row: the column rides along from the AIS table,
\* one value per vessel.
VesselTypeOf(types, r) == types[r.mmsi]

\* Variant of the type table that keeps a group for the missing value.
groupby_VesselType_keep_nan(rows, types) ==
  [t \in {VesselTypeOf(types, r) : r \in RowSet(rows)} |->
     LET of_type == SelectSeq(rows, LAMBDA r : VesselTypeOf(types, r) = t)
     IN [incident_count |-> Len(of_type), total_area_sq_km |-> SumArea(of_type)]]

\* unique_incidents.groupby('VesselType').agg(incident_count=('spill_id',
\* 'count'), total_area_sq_km=('area_sq_km', 'sum')): groupby leaves out the
\* rows whose key is missing.
groupby_VesselType(rows, types) ==
  [t \in {VesselTypeOf(types, r) : r \in RowSet(rows)} \ {NaN} |->
     LET of_type == SelectSeq(rows, LAMBDA r : VesselTypeOf(types, r) = t)
     IN [incident_count |-> Len(of_type), total_area_sq_km |-> SumArea(of_type)]]

\* candidates.groupby('spill_id')['mmsi'].nunique()
groupby_spill_nunique(rows) ==
  [s \in {r.spill_id : r \in RowSet(rows)} |->
     Cardinality({r.mmsi : r \in {q \in RowSet(rows) : q.spill_id = s}})]

(***************************************************************************)
(* Prime suspects (analytics tab 3).                                       *)
(***************************************************************************)
\* candidates['time_to_detection'] = detection_date - timestamp
time_to_detection(r) == r.detection_date - r.timestamp

\* Series.idxmin() of one group: the index label of the first row holding
\* the minimum.
idxmin(group) ==
  LET first == CHOOSE i \in 1..Len(group) :
                 /\ \A j \in 1..Len(group) :
                      time_to_detection(group[i]) <= time_to_detection(group[j])
                 /\ \A j \in 1..(i - 1) :
                      time_to_detection(group[j]) > time_to_detection(group[i])
  IN group[first].index

\* groupby('spill_id')['time_to_detection'].idxmin(): one label per group,
\* groups in sorted key order.
RECURSIVE groupby_idxmin(_, _)
groupby_idxmin(rows, k) ==
  IF k > Len(SpillOrder) THEN <<>>
  ELSE LET group == SelectSeq(rows, LAMBDA r : r.spill_id = SpillOrder[k])
       IN (IF group = <<>> THEN <<>> ELSE <<idxmin(group)>>)
          \o groupby_idxmin(rows, k + 1)

\* DataFrame.loc[labels] on an index that may hold a label several times:
\* for each requested label, every row carrying that label.
RECURSIVE loc(_, _)
loc(rows, labels) ==
  IF labels = <<>> THEN <<>>
  ELSE SelectSeq(rows, LAMBDA r : r.index = Head(labels))
       \o loc(rows, Tail(labels))

prime_suspects(rows) == loc(rows, groupby_idxmin(rows, 1))

\* Variant of the column assignment that rebinds the frame to the selected
\* prime-suspect rows.
with_time_to_detection_overwrite(df) ==
  Frame(df.cols \cup {"time_to_detection"}, prime_suspects(df.rows))

\* The frame after line "candidates['time_to_detection'] = ...": the same
\* rows, one more column.
with_time_to_detection(df) ==
  Frame(df.cols \cup {"time_to_detection"}, df.rows)

\* prime_suspects_df = candidates.loc[prime_suspects_idx]
prime_suspects_frame(df) ==
  Frame(df.cols \cup {"time_to_detection"}, prime_suspects(df.rows))

(***************************************************************************)
(* Map layer and candidate table.                                          *)
(***************************************************************************)
MarkerCols == {"location", "mmsi", "timestamp", "spill_id"}
Marker(r) ==
  [location |-> <<r.geometry[2], r.geometry[1]>>, mmsi |-> r.mmsi,
   timestamp |-> r.timestamp, spill_id |-> r.spill_id]

\* Variant of the marker layer drawing one marker per (vessel, spill).
markers_dedup(df) ==
  LET once == drop_duplicates(df.rows)
  IN Frame(MarkerCols, [i \in 1..Len(once) |-> Marker(once[i])])

markers(df) == Frame(MarkerCols, [i \in 1..Len(df.rows) |-> Marker(df.rows[i])])

\* sort_values(by=detection time, ascending=False) of a short frame: rows in
\* descending key order, equal keys in their original order.
RECURSIVE InsertDesc(_, _)
InsertDesc(r, sorted) ==
  IF sorted = <<>> THEN <<r>>
  ELSE IF Head(sorted).detection_date >= r.detection_date
         THEN <<Head(sorted)>> \o InsertDesc(r, Tail(sorted))
         ELSE <<r>> \o sorted

RECURSIVE sort_values_desc(_)
sort_values_desc(rows) ==
  IF rows = <<>> THEN <<>>
  ELSE InsertDesc(rows[Len(rows)], sort_values_desc(SubSeq(rows, 1, Len(rows) - 1)))

DisplayCols == {"spill_id", "mmsi", "timestamp", "detection_date", "area_sq_km"}
DisplayRow(r) ==
  [spill_id |-> r.spill_id, mmsi |-> r.mmsi, timestamp |-> r.timestamp,
   detection_date |-> r.detection_date, area_sq_km |-> r.area_sq_km]

candidate_table(df) ==
  LET report_df == drop_duplicates(df.rows)
      shown == sort_values_desc(report_df)
  IN Frame(DisplayCols, [i \in 1..Len(shown) |-> DisplayRow(shown[i])])

NoMapping == <<>>

(***************************************************************************)
(* Data files and loaders (load_spills_data, load_ais_data).               *)
(***************************************************************************)
\* A file that could not be read (or, outside a run, was not read).
NotRead == [readable |-> FALSE, cols |-> {}, rows |-> <<>>]

\* A missing value: NaN of a numeric column, NaT of a datetime column.
Null == -1

\* Timestamp texts: Text(t) is a well-formed text of the instant t, Garbage
\* a text that is no timestamp.
Text(t) == [parses |-> TRUE, instant |-> t]
Garbage == [parses |-> FALSE, instant |-> 0]

\* pd.to_datetime(text, errors='coerce')
to_datetime(text) == IF text.parses THEN text.instant ELSE Null

\* gdf['date'] + ' ' + gdf['time']: a date text (first hour of its day) and
\* a time-of-day text give a timestamp text when both are well formed.
Concat(date, time) ==
  IF date.parses /\ time.parses THEN Text(date.instant + time.instant)
  ELSE Garbage

\* The slick names of the catalogue read as texts of the pattern
\* %Y-%m-%d_%H:%M:%S: "S1" is written in the pattern and names the instant
\* MaxTime, "S2" is a free-form name.
SlickNameText ==
  [s \in SpillIds |-> IF s = "S1" THEN Text(MaxTime) ELSE Garbage]

SpillFileCols == {"slick_name", "area_sys", "geometry", "date", "time"}
RequiredSpillCols == {"slick_name", "area_sys"}

SpillFeature(s, date, time) ==
  [slick_name |-> s, area_sys |-> SpillArea[s], geometry |-> SpillGeometry[s],
   date |-> date, time |-> time]

\* Features of a file with date and time properties: dated at either
\* detection time, or with a date that is no date.
DatedFeatures(s) ==
  {SpillFeature(s, Text(0), Text(d)) : d \in DetectionTimes}
  \cup {SpillFeature(s, Garbage, Text(MaxTime))}
\* Feature of a file without them (the two fields are then not read).
UndatedFeatures(s) == {SpillFeature(s, Garbage, Garbage)}

\* Files hold the catalogue's slicks in catalogue order, each at most once.
FeatureSeqs(first, second) ==
  {<<>>}
  \cup {<<f>> : f \in first \cup second}
  \cup {<<f1, f2>> : f1 \in first, f2 \in second}

BothDated ==
  <<SpillFeature("S1", Text(0), Text(MaxTime)),
    SpillFeature("S2", Text(0), Text(MaxTime))>>

\* The spill files of the model: complete files, files without date/time
\* properties, files lacking one property, and an unreadable file.
SpillFiles ==
  {[readable |-> TRUE, cols |-> SpillFileCols, rows |-> rs] :
     rs \in FeatureSeqs(DatedFeatures("S1"), DatedFeatures("S2"))}
  \cup {[readable |-> TRUE, cols |-> SpillFileCols \ {"date", "time"}, rows |-> rs] :
          rs \in FeatureSeqs(UndatedFeatures("S1"), UndatedFeatures("S2"))}
  \cup {[readable |-> TRUE, cols |-> SpillFileCols \ {c}, rows |-> BothDated] :
          c \in RequiredSpillCols \cup {"time"}}
  \cup {NotRead}

\* Variant of the derivation that falls back, record by record, on the
\* other strategy when the first yields no timestamp.
spill_detection_date_fallback(file, rec) ==
  LET fields == to_datetime(Concat(rec.date, rec.time))
      name == to_datetime(SlickNameText[rec.slick_name])
  IN IF "date" \in file.cols /\ "time" \in file.cols /\ fields # Null
       THEN fields ELSE name

\* detection_date: from the date and time columns when the file has both,
\* otherwise from the slick name.
spill_detection_date(file, rec) ==
  IF "date" \in file.cols /\ "time" \in file.cols
    THEN to_datetime(Concat(rec.date, rec.time))
    ELSE to_datetime(SlickNameText[rec.slick_name])

LoadedSpillCols(file) ==
  (file.cols \ RequiredSpillCols) \cup {"spill_id", "area_sq_km", "detection_date"}

SpillRecords(file) ==
  [i \in 1..Len(file.rows) |->
     [spill_id |-> file.rows[i].slick_name,
      geometry |-> file.rows[i].geometry,
      detection_date |-> spill_detection_date(file, file.rows[i]),
      area_sq_km |-> file.rows[i].area_sys]]

\* Variant of the clean-up that keeps the records without detection date.
dropna_detection_date_none(rows) == rows

\* gdf.dropna(subset=['detection_date'])
dropna_detection_date(rows) ==
  SelectSeq(rows, LAMBDA r : r.detection_date # Null)

\* A loader returns its value and the st.error messages it showed.
load_spills_data_ais(file) ==
  IF ~file.readable
    THEN [value |-> EmptyGeoDataFrame, errors |-> <<"spills_unreadable">>]
  ELSE IF ~(RequiredSpillCols \subseteq file.cols)
    THEN [value |-> EmptyGeoDataFrame, errors |-> <<"spills_missing_fields">>]
  ELSE [value |-> Frame(LoadedSpillCols(file),
                        dropna_detection_date(SpillRecords(file))),
        errors |-> <<>>]

load_spills_data_app(file) ==
  IF ~file.readable
    THEN [value |-> NoneValue, errors |-> <<"spills_unreadable">>]
  ELSE IF ~(RequiredSpillCols \subseteq file.cols)
    THEN [value |-> NoneValue, errors |-> <<"spills_missing_fields">>]
  ELSE LET gdf == SpillRecords(file)
           undated == \E i \in 1..Len(gdf) : gdf[i].detection_date = Null
           kept == IF undated THEN dropna_detection_date(gdf) ELSE gdf
           told == IF undated THEN <<"spills_undated_records">> ELSE <<>>
       IN IF kept = <<>>
            THEN [value |-> NoneValue,
                  errors |-> told \o <<"spills_none_dated">>]
            ELSE [value |-> Frame(LoadedSpillCols(file), kept), errors |-> told]

AisFileCols == {"mmsi", "latitude", "longitude", "BaseDateTime"}
RequiredAisCols == {"mmsi", "latitude", "longitude", "BaseDateTime"}

AisLine(m, lon, lat, text) ==
  [mmsi |-> m, longitude |-> lon, latitude |-> lat, BaseDateTime |-> text]

\* Lines of an AIS file: V1 inside both slicks, V2 inside S2, a line with a
\* time that is no time, and lines without latitude or longitude.
AisLines ==
  {AisLine("V1", 2, 2, Text(t)) : t \in DetectionTimes}
  \cup {AisLine("V2", 3, 2, Text(MaxTime)), AisLine("V2", 3, 2, Garbage),
        AisLine("V1", 2, Null, Text(MaxTime)),
        AisLine("V2", Null, 2, Text(MaxTime))}

TwoLines ==
  <<AisLine("V1", 2, 2, Text(MaxTime)), AisLine("V2", 3, 2, Text(MaxTime))>>

AisFiles ==
  {[readable |-> TRUE, cols |-> AisFileCols, rows |-> ls] :
     ls \in UNION {[1..n -> AisLines] : n \in 0..MaxRows}}
  \cup {[readable |-> TRUE, cols |-> AisFileCols \ {c}, rows |-> TwoLines] :
          c \in RequiredAisCols}
  \cup {NotRead}

\* read_csv numbers the lines from 0; the timestamp column is added.
AisRecords(file) ==
  [i \in 1..Len(file.rows) |->
     [index |-> i - 1, mmsi |-> file.rows[i].mmsi,
      longitude |-> file.rows[i].longitude,
      latitude |-> file.rows[i].latitude,
      timestamp |-> to_datetime(file.rows[i].BaseDateTime)]]

\* Variant of the clean-up that looks at the timestamp only.
dropna_ais_timestamp_only(rows) ==
  SelectSeq(rows, LAMBDA r : r.timestamp # Null)

\* df.dropna(subset=['timestamp', 'latitude', 'longitude'])
dropna_ais(rows) ==
  SelectSeq(rows, LAMBDA r : /\ r.timestamp # Null
                             /\ r.latitude # Null
                             /\ r.longitude # Null)

\* gpd.GeoDataFrame(df, geometry=gpd.points_from_xy(df.longitude, df.latitude))
points_from_xy(rows) ==
  [i \in 1..Len(rows) |->
     [index |-> rows[i].index, mmsi |-> rows[i].mmsi,
      geometry |-> <<rows[i].longitude, rows[i].latitude>>,
      timestamp |-> rows[i].timestamp]]

LoadedAisCols(file) == file.cols \cup {"timestamp", "geometry"}

load_ais_data_ais(file) ==
  IF ~file.readable
    THEN [value |-> EmptyGeoDataFrame, errors |-> <<"ais_unreadable">>]
  ELSE IF ~(RequiredAisCols \subseteq file.cols)
    THEN [value |-> EmptyGeoDataFrame, errors |-> <<"ais_missing_columns">>]
  ELSE [value |-> Frame(LoadedAisCols(file),
                        points_from_xy(dropna_ais(AisRecords(file)))),
        errors |-> <<>>]

load_ais_data_app(file) ==
  IF ~file.readable
    THEN [value |-> NoneValue, errors |-> <<"ais_unreadable">>]
  ELSE IF ~(RequiredAisCols \subseteq file.cols)
    THEN [value |-> NoneValue, errors |-> <<"ais_missing_columns">>]
  ELSE [value |-> Frame(LoadedAisCols(file),
                        points_from_xy(dropna_ais(AisRecords(file)))),
        errors |-> <<>>]

\* Variants of the stop test of the main script: both frames empty, and a
\* frame without columns only.
main_stop_ais_both(spills, vessels) == Empty(spills) /\ Empty(vessels)

main_stop_ais_columnless(spills, vessels) ==
  spills.cols = {} \/ vessels.cols = {}

\* if spills_gdf.empty or vessels_gdf.empty
main_stop_ais(spills, vessels) == Empty(spills) \/ Empty(vessels)

\* if spills_gdf is None or vessels_gdf is None or spills_gdf.empty or
\* vessels_gdf.empty
main_stop_app(spills, vessels) ==
  \/ spills.kind = "None" \/ vessels.kind = "None"
  \/ Empty(spills) \/ Empty(vessels)

(***************************************************************************)
(* Specification Spec: the matcher and the analytics applied to arbitrary  *)
(* inputs.                                                                 *)
(*   pc = "input"   : inputs chosen, nothing computed                      *)
(*   pc = "matched" : candidates_df = find_candidates(...)                 *)
(*   pc = "ranked"  : analytics tabs evaluated on candidates_df            *)
(***************************************************************************)
\* Frames handed over directly: no file was read, no filter widget used.
NothingLoaded ==
  /\ spills_file = NotRead
  /\ ais_file = NotRead
  /\ date_range = <<>>
  /\ selected_vessels_display = {}
  /\ st_errors = <<>>

\* Nothing was reported yet.
NothingReported ==
  /\ vessel_type_analysis = NoMapping
  /\ reportable_incidents_df = NoMapping
  /\ selected_spill_id = NaN
  /\ report_bytes = Undefined

SpillFrames == {Frame(SpillCols, rs) : rs \in SpillRowSeqs}
VesselFrames == {Frame(VesselCols, rs) : rs \in VesselRowSeqs}

Init ==
  /\ spills_gdf \in SpillFrames \cup {EmptyGeoDataFrame, NoneValue}
  /\ vessels_gdf \in VesselFrames \cup {EmptyGeoDataFrame, NoneValue}
  /\ time_window_hours \in Windows
  /\ candidates_df = Undefined
  /\ candidates_df_for_analytics = Undefined
  /\ prime_suspects_df = Undefined
  /\ candidate_vessels_fg = Undefined
  /\ display_df = Undefined
  /\ ship_incident_counts = NoMapping
  /\ ship_area_sum = NoMapping
  /\ spill_candidate_counts = NoMapping
  /\ pc = "input"
  /\ NothingLoaded
  /\ VesselType = NoMapping
  /\ predicate_raises = FALSE
  /\ NothingReported

\* Values the frame variables of a variant can hold when find_candidates is
\* called: ais.py and part_000 never hold None (their loaders return the
\* column-less gpd.GeoDataFrame() on failure), app.py never holds the
\* column-less frame (its loaders return None on failure).
ArgsOfAis == spills_gdf.kind = "frame" /\ vessels_gdf.kind = "frame"
ArgsOfApp == spills_gdf # EmptyGeoDataFrame /\ vessels_gdf # EmptyGeoDataFrame

UnchangedOutputs ==
  UNCHANGED <<candidates_df_for_analytics, prime_suspects_df,
              candidate_vessels_fg, display_df, ship_incident_counts,
              ship_area_sum, spill_candidate_counts, run_inputs,
              report_outputs>>

\* A call of find_candidates; from "matched" it is the call of the next run,
\* made after the window slider was moved to w.
CallFindCandidatesAis ==
  /\ pc \in {"input", "matched"}
  /\ ArgsOfAis
  /\ \E w \in Windows :
       /\ pc = "input" => w = time_window_hours
       /\ time_window_hours' = w
       /\ candidates_df' = find_candidates_ais(spills_gdf, vessels_gdf, w)
  /\ pc' = "matched"
  /\ UNCHANGED <<spills_gdf, vessels_gdf>>
  /\ UnchangedOutputs

CallFindCandidatesApp ==
  /\ pc \in {"input", "matched"}
  /\ ArgsOfApp
  /\ \E w \in Windows :
       /\ pc = "input" => w = time_window_hours
       /\ time_window_hours' = w
       /\ candidates_df' = find_candidates_app(spills_gdf, vessels_gdf, w)
  /\ pc' = "matched"
  /\ UNCHANGED <<spills_gdf, vessels_gdf>>
  /\ UnchangedOutputs

CallFindCandidatesPart ==
  /\ pc \in {"input", "matched"}
  /\ ArgsOfAis
  /\ \E w \in Windows :
       /\ pc = "input" => w = time_window_hours
       /\ time_window_hours' = w
       /\ candidates_df' = find_candidates_part(spills_gdf, vessels_gdf, w)
  /\ pc' = "matched"
  /\ UNCHANGED <<spills_gdf, vessels_gdf>>
  /\ UnchangedOutputs

\* The analytics tabs of app.py, which work on candidates_df itself.
Analytics ==
  /\ pc = "matched"
  /\ candidates_df.kind = "frame"
  /\ IF ~Empty(candidates_df)
       THEN LET unique_incidents == drop_duplicates(candidates_df.rows) IN
            /\ ship_incident_counts' = groupby_mmsi_size(unique_incidents)
            /\ ship_area_sum' = groupby_mmsi_area_sum(unique_incidents)
            /\ spill_candidate_counts' = groupby_spill_nunique(candidates_df.rows)
            /\ candidates_df' = with_time_to_detection(candidates_df)
            /\ prime_suspects_df' = prime_suspects_frame(candidates_df)
            /\ vessel_type_analysis' =
                 IF VesselType # NoMapping
                   THEN groupby_VesselType(unique_incidents, VesselType)
                   ELSE vessel_type_analysis
       ELSE UNCHANGED <<ship_incident_counts, ship_area_sum,
                        spill_candidate_counts, candidates_df, prime_suspects_df,
                        vessel_type_analysis>>
  /\ pc' = "ranked"
  /\ UNCHANGED <<spills_gdf, vessels_gdf, time_window_hours,
                 candidates_df_for_analytics, candidate_vessels_fg, display_df,
                 run_inputs, reportable_incidents_df, selected_spill_id,
                 report_bytes>>

Next ==
  \/ CallFindCandidatesAis
  \/ CallFindCandidatesApp
  \/ CallFindCandidatesPart
  \/ Analytics

Spec == Init /\ [][Next]_vars

(***************************************************************************)
(* Specification SpecTypes: find_candidates and the analytics tabs of       *)
(* app.py on an AIS table that has a VesselType column.  The positions are  *)
(* all taken one hour before the last instant.                              *)
(***************************************************************************)
\* The VesselType column: every vessel typed alike, typed differently, or
\* one vessel without a type value.
VesselTypeColumns ==
  {[m \in Mmsis |-> "Tanker"],
   [m \in Mmsis |-> IF m = "V1" THEN "Tanker" ELSE "Cargo"],
   [m \in Mmsis |-> IF m = "V1" THEN "Tanker" ELSE NaN]}

InitTypes ==
  /\ spills_gdf \in SpillFrames
  /\ vessels_gdf \in {f \in VesselFrames :
                         \A r \in RowSet(f.rows) : r.timestamp = MaxTime - 1}
  /\ time_window_hours \in Windows
  /\ VesselType \in VesselTypeColumns
  /\ predicate_raises = FALSE
  /\ candidates_df = Undefined
  /\ candidates_df_for_analytics = Undefined
  /\ prime_suspects_df = Undefined
  /\ candidate_vessels_fg = Undefined
  /\ display_df = Undefined
  /\ ship_incident_counts = NoMapping
  /\ ship_area_sum = NoMapping
  /\ spill_candidate_counts = NoMapping
  /\ pc = "input"
  /\ NothingLoaded
  /\ NothingReported

NextTypes ==
  \/ CallFindCandidatesApp
  \/ Analytics

SpecTypes == InitTypes /\ [][NextTypes]_vars

(***************************************************************************)
(* Specification SpecGeometry: find_candidates on a spill layer that holds *)
(* a feature with an invalid polygon, on an installation whose geometry    *)
(* library raises on it or evaluates the predicate.                        *)
(***************************************************************************)
\* A ring traced the wrong way round: it bounds no region.
MalformedGeometry == [xmin |-> 3, ymin |-> 0, xmax |-> 0, ymax |-> 3]
MalformedSpillRow(s, d) ==
  [spill_id |-> s, geometry |-> MalformedGeometry, detection_date |-> d,
   area_sq_km |-> SpillArea[s]]
MalformedSpillRowSeqs ==
  {<<MalformedSpillRow("S2", d)>> : d \in DetectionTimes}
  \cup {<<SpillRow("S1", d1), MalformedSpillRow("S2", d2)>> :
          d1 \in DetectionTimes, d2 \in DetectionTimes}
  \cup {<<MalformedSpillRow("S2", d2), SpillRow("S1", d1)>> :
          d1 \in DetectionTimes, d2 \in DetectionTimes}

InitGeometry ==
  /\ spills_gdf \in {Frame(SpillCols, rs) : rs \in MalformedSpillRowSeqs}
  /\ vessels_gdf \in {f \in VesselFrames :
                         \A r \in RowSet(f.rows) : r.timestamp = MaxTime - 1}
  /\ time_window_hours \in Windows
  /\ predicate_raises \in BOOLEAN
  /\ VesselType = NoMapping
  /\ candidates_df = Undefined
  /\ candidates_df_for_analytics = Undefined
  /\ prime_suspects_df = Undefined
  /\ candidate_vessels_fg = Undefined
  /\ display_df = Undefined
  /\ ship_incident_counts = NoMapping
  /\ ship_area_sum = NoMapping
  /\ spill_candidate_counts = NoMapping
  /\ pc = "input"
  /\ NothingLoaded
  /\ NothingReported

NextGeometry ==
  \/ CallFindCandidatesAis
  \/ CallFindCandidatesApp
  \/ CallFindCandidatesPart

SpecGeometry == InitGeometry /\ [][NextGeometry]_vars

(***************************************************************************)
(* Specification SpecRun: sections 5 and 6 of the main script of ais.py,   *)
(* started with the loaded and filtered frames.                            *)
(***************************************************************************)
InitRun ==
  /\ spills_gdf \in SpillFrames
  /\ vessels_gdf \in VesselFrames
  /\ time_window_hours \in Windows
  /\ candidates_df = Undefined
  /\ candidates_df_for_analytics = Undefined
  /\ prime_suspects_df = Undefined
  /\ candidate_vessels_fg = Undefined
  /\ display_df = Undefined
  /\ ship_incident_counts = NoMapping
  /\ ship_area_sum = NoMapping
  /\ spill_candidate_counts = NoMapping
  /\ pc = "r_start"
  /\ NothingLoaded
  /\ VesselType = NoMapping
  /\ predicate_raises = FALSE
  /\ NothingReported

\* Map: the candidate markers are drawn from the first call.
MapSection ==
  /\ pc = "r_start"
  /\ IF Empty(spills_gdf)
       THEN UNCHANGED <<candidates_df, candidate_vessels_fg>>
       ELSE LET found == find_candidates_ais(spills_gdf, vessels_gdf, time_window_hours)
            IN /\ candidates_df' = found
               /\ candidate_vessels_fg' = markers(found)
  /\ pc' = "r_mapped"
  /\ UNCHANGED <<spills_gdf, vessels_gdf, time_window_hours,
                 candidates_df_for_analytics, prime_suspects_df, display_df,
                 ship_incident_counts, ship_area_sum, spill_candidate_counts,
                 run_inputs, report_outputs>>

\* Candidate table: second call, one line per (spill, vessel).
TableSection ==
  /\ pc = "r_mapped"
  /\ LET found == find_candidates_ais(spills_gdf, vessels_gdf, time_window_hours)
     IN /\ candidates_df' = found
        /\ display_df' = IF Empty(found) THEN display_df ELSE candidate_table(found)
  /\ pc' = "r_tabled"
  /\ UNCHANGED <<spills_gdf, vessels_gdf, time_window_hours,
                 candidates_df_for_analytics, prime_suspects_df,
                 candidate_vessels_fg, ship_incident_counts, ship_area_sum,
                 spill_candidate_counts, run_inputs, report_outputs>>

\* Analytics: third call, tab 1 (per-vessel rollups) and tab 3 (per-spill
\* counts and prime suspects).
AnalyticsSection ==
  /\ pc = "r_tabled"
  /\ LET found == find_candidates_ais(spills_gdf, vessels_gdf, time_window_hours)
     IN IF ~Empty(found)
          THEN LET unique_incidents == drop_duplicates(found.rows) IN
               /\ ship_incident_counts' = groupby_mmsi_size(unique_incidents)
               /\ ship_area_sum' = groupby_mmsi_area_sum(unique_incidents)
               /\ spill_candidate_counts' = groupby_spill_nunique(found.rows)
               /\ candidates_df_for_analytics' = with_time_to_detection(found)
               /\ prime_suspects_df' = prime_suspects_frame(found)
          ELSE /\ candidates_df_for_analytics' = found
               /\ UNCHANGED <<ship_incident_counts, ship_area_sum,
                              spill_candidate_counts, prime_suspects_df>>
  /\ pc' = "r_done"
  /\ UNCHANGED <<spills_gdf, vessels_gdf, time_window_hours, candidates_df,
                 candidate_vessels_fg, display_df, run_inputs,
                 report_outputs>>

NextRun ==
  \/ MapSection
  \/ TableSection
  \/ AnalyticsSection

SpecRun == InitRun /\ [][NextRun]_vars

(***************************************************************************)
(* Specification SpecPart: sections 5 to 7 of the main script of part_000, *)
(* started with the loaded and filtered frames.                            *)
(*   pc = "p_start" -> "p_mapped" -> "p_tabled" -> "p_ranked" -> "p_done"  *)
(***************************************************************************)
SecondsPerHour == 3600
SecondsPerMinute == 60

\* A pandas Timedelta of h hours: whole days and the seconds left within
\* the day.
Timedelta(h) ==
  [days |-> h \div HoursPerDay,
   seconds |-> (h % HoursPerDay) * SecondsPerHour]

\* strfdelta(tdelta, "{hours} h {minutes} min")
strfdelta(tdelta) ==
  LET hours == tdelta.seconds \div SecondsPerHour
      rem == tdelta.seconds % SecondsPerHour
  IN [hours |-> hours, minutes |-> rem \div SecondsPerMinute]

\* The parts of the document that depend on the Candidates: the table of
\* section 3, the prime suspect paragraph and the count of the conclusion.
generate_docx_report(spill_data, candidates_data, prime_suspect_data) ==
  [spill_id |-> spill_data.spill_id,
   table |-> [i \in 1..Len(candidates_data) |->
                [mmsi |-> candidates_data[i].mmsi,
                 timestamp |-> candidates_data[i].timestamp,
                 time_to_detection |->
                   strfdelta(Timedelta(spill_data.detection_date
                                         - candidates_data[i].timestamp))]],
   suspect |-> IF prime_suspect_data = <<>> THEN <<>>
               ELSE <<[mmsi |-> prime_suspect_data[1].mmsi,
                       time_to_detection |->
                         strfdelta(Timedelta(time_to_detection(prime_suspect_data[1])))]>>,
   candidate_count |-> Len(candidates_data)]

InitPart ==
  /\ spills_gdf \in SpillFrames
  /\ vessels_gdf \in VesselFrames
  /\ time_window_hours \in Windows
  /\ candidates_df = Undefined
  /\ candidates_df_for_analytics = Undefined
  /\ prime_suspects_df = Undefined
  /\ candidate_vessels_fg = Undefined
  /\ display_df = Undefined
  /\ ship_incident_counts = NoMapping
  /\ ship_area_sum = NoMapping
  /\ spill_candidate_counts = NoMapping
  /\ pc = "p_start"
  /\ NothingLoaded
  /\ VesselType = NoMapping
  /\ predicate_raises = FALSE
  /\ NothingReported

\* Map: candidates_df starts as an empty frame and is computed only when
\* there are spills.
PartMapSection ==
  /\ pc = "p_start"
  /\ IF Empty(spills_gdf)
       THEN /\ candidates_df' = EmptyGeoDataFrame
            /\ UNCHANGED candidate_vessels_fg
       ELSE LET found == find_candidates_part(spills_gdf, vessels_gdf, time_window_hours)
            IN /\ candidates_df' = found
               /\ candidate_vessels_fg' = markers(found)
  /\ pc' = "p_mapped"
  /\ UNCHANGED <<spills_gdf, vessels_gdf, time_window_hours,
                 candidates_df_for_analytics, prime_suspects_df, display_df,
                 ship_incident_counts, ship_area_sum, spill_candidate_counts,
                 run_inputs, report_outputs>>

\* Candidate table, from the frame of the map.
PartTableSection ==
  /\ pc = "p_mapped"
  /\ display_df' = IF Empty(candidates_df) THEN display_df
                   ELSE candidate_table(candidates_df)
  /\ pc' = "p_tabled"
  /\ UNCHANGED <<spills_gdf, vessels_gdf, time_window_hours, candidates_df,
                 candidates_df_for_analytics, prime_suspects_df,
                 candidate_vessels_fg, ship_incident_counts, ship_area_sum,
                 spill_candidate_counts, run_inputs, report_outputs>>

\* Analytics: second call (none without spills), tabs 1 and 3.
PartAnalyticsSection ==
  /\ pc = "p_tabled"
  /\ LET found == IF ~Empty(spills_gdf)
                    THEN find_candidates_part(spills_gdf, vessels_gdf, time_window_hours)
                    ELSE EmptyGeoDataFrame
     IN IF ~Empty(found)
          THEN LET unique_incidents == drop_duplicates(found.rows) IN
               /\ ship_incident_counts' = groupby_mmsi_size(unique_incidents)
               /\ ship_area_sum' = groupby_mmsi_area_sum(unique_incidents)
               /\ spill_candidate_counts' = groupby_spill_nunique(found.rows)
               /\ candidates_df_for_analytics' = with_time_to_detection(found)
               /\ prime_suspects_df' = prime_suspects_frame(found)
          ELSE /\ candidates_df_for_analytics' = found
               /\ prime_suspects_df' = EmptyGeoDataFrame
               /\ UNCHANGED <<ship_incident_counts, ship_area_sum,
                              spill_candidate_counts>>
  /\ pc' = "p_ranked"
  /\ UNCHANGED <<spills_gdf, vessels_gdf, time_window_hours, candidates_df,
                 candidate_vessels_fg, display_df, run_inputs, report_outputs>>

\* Report block: the incident table with its candidate counts, the radio
\* button choosing one incident, and the document generated for it.
PartReportSection ==
  /\ pc = "p_ranked"
  /\ IF ~Empty(candidates_df_for_analytics)
       THEN LET candidate_counts ==
                  groupby_spill_nunique(candidates_df_for_analytics.rows)
            IN /\ reportable_incidents_df' = candidate_counts
               /\ \E selected \in DOMAIN candidate_counts :
                    LET of_spill(rows) ==
                          SelectSeq(rows, LAMBDA r : r.spill_id = selected)
                        spill_row == of_spill(spills_gdf.rows)[1]
                        candidates_for_spill ==
                          of_spill(candidates_df_for_analytics.rows)
                        prime_suspect_for_spill ==
                          IF ~Empty(prime_suspects_df)
                            THEN of_spill(prime_suspects_df.rows) ELSE <<>>
                    IN /\ selected_spill_id' = selected
                       /\ report_bytes' =
                            generate_docx_report(spill_row, candidates_for_spill,
                                                 prime_suspect_for_spill)
       ELSE UNCHANGED <<reportable_incidents_df, selected_spill_id, report_bytes>>
  /\ pc' = "p_done"
  /\ UNCHANGED <<spills_gdf, vessels_gdf, time_window_hours, candidates_df,
                 candidates_df_for_analytics, prime_suspects_df,
                 candidate_vessels_fg, display_df, ship_incident_counts,
                 ship_area_sum, spill_candidate_counts, run_inputs,
                 vessel_type_analysis>>

NextPart ==
  \/ PartMapSection
  \/ PartTableSection
  \/ PartAnalyticsSection
  \/ PartReportSection

SpecPart == InitPart /\ [][NextPart]_vars

(***************************************************************************)
(* Specification SpecLoad: a run of the main script from the data files:   *)
(* load and stop test (ais.py and app.py), then, in ais.py, the date and   *)
(* vessel filters followed by the sections of SpecRun.                     *)
(*   pc = "l_start"  : files and sidebar chosen, nothing loaded            *)
(*   pc = "stopped"  : st.stop() was called                                *)
(*   pc = "l_loaded" : ais.py went past the stop test                      *)
(*   pc = "a_loaded" : app.py went past the stop test                      *)
(*   pc = "raised"   : a filter raised an exception                        *)
(***************************************************************************)
\* st.sidebar.date_input: a pair of days, or one day while the second is
\* being picked.
DateRanges ==
  {<<0>>} \cup {r \in Days \X Days : r[1] <= r[2]}

InitLoad ==
  /\ spills_file \in SpillFiles
  /\ ais_file \in AisFiles
  /\ date_range \in DateRanges
  /\ selected_vessels_display = {}
  /\ st_errors = <<>>
  /\ time_window_hours \in Windows
  /\ spills_gdf = Undefined
  /\ vessels_gdf = Undefined
  /\ candidates_df = Undefined
  /\ candidates_df_for_analytics = Undefined
  /\ prime_suspects_df = Undefined
  /\ candidate_vessels_fg = Undefined
  /\ display_df = Undefined
  /\ ship_incident_counts = NoMapping
  /\ ship_area_sum = NoMapping
  /\ spill_candidate_counts = NoMapping
  /\ pc = "l_start"
  /\ VesselType = NoMapping
  /\ predicate_raises = FALSE
  /\ NothingReported

UnchangedResults ==
  UNCHANGED <<candidates_df, candidates_df_for_analytics, prime_suspects_df,
              candidate_vessels_fg, display_df, ship_incident_counts,
              ship_area_sum, spill_candidate_counts, time_window_hours,
              report_outputs>>

\* ais.py: both loaders, then the stop test.
LoadAis ==
  /\ pc = "l_start"
  /\ LET spills == load_spills_data_ais(spills_file)
         vessels == load_ais_data_ais(ais_file)
         stop == main_stop_ais(spills.value, vessels.value)
     IN /\ spills_gdf' = spills.value
        /\ vessels_gdf' = vessels.value
        /\ st_errors' = spills.errors \o vessels.errors
                          \o (IF stop THEN <<"analysis_stopped">> ELSE <<>>)
        /\ pc' = IF stop THEN "stopped" ELSE "l_loaded"
  /\ UNCHANGED <<spills_file, ais_file, date_range, selected_vessels_display,
                 VesselType, predicate_raises>>
  /\ UnchangedResults

\* app.py: both loaders, then the stop test.
LoadApp ==
  /\ pc = "l_start"
  /\ LET spills == load_spills_data_app(spills_file)
         vessels == load_ais_data_app(ais_file)
         stop == main_stop_app(spills.value, vessels.value)
     IN /\ spills_gdf' = spills.value
        /\ vessels_gdf' = vessels.value
        /\ st_errors' = spills.errors \o vessels.errors
                          \o (IF stop THEN <<"analysis_stopped">> ELSE <<>>)
        /\ pc' = IF stop THEN "stopped" ELSE "a_loaded"
  /\ UNCHANGED <<spills_file, ais_file, date_range, selected_vessels_display,
                 VesselType, predicate_raises>>
  /\ UnchangedResults

\* start_date and end_date of ais.py: midnight before the first day and
\* midnight after the last day, both included.
start_date(range) == range[1] * HoursPerDay
end_date_ais(range) == (range[2] + 1) * HoursPerDay

\* spills_gdf[(detection_date >= start_date) & (detection_date <= end_date)]
spills_between(df, lo, hi) ==
  Frame(df.cols,
        SelectSeq(df.rows, LAMBDA r : lo <= r.detection_date /\ r.detection_date <= hi))

\* Variant of the date filter that leaves the vessel positions alone.
vessels_between_unfiltered(df, lo, hi) == df

\* vessels_gdf[(timestamp >= start_date) & (timestamp <= end_date)]
vessels_between(df, lo, hi) ==
  Frame(df.cols,
        SelectSeq(df.rows, LAMBDA r : lo <= r.timestamp /\ r.timestamp <= hi))

\* Variant of the vessel filter that ignores the selection.
isin_mmsi_ignored(df, selected_mmsi) == df

isin_mmsi(df, selected_mmsi) ==
  Frame(df.cols, SelectSeq(df.rows, LAMBDA r : r.mmsi \in selected_mmsi))

\* ais.py: date filter on both frames, then the vessel multiselect, whose
\* options are the vessels left by the date filter.
FilterSection ==
  /\ pc = "l_loaded"
  /\ IF "detection_date" \notin spills_gdf.cols \/ "timestamp" \notin vessels_gdf.cols
          \/ "mmsi" \notin vessels_gdf.cols
       THEN /\ pc' = "raised"
            /\ UNCHANGED <<spills_gdf, vessels_gdf, selected_vessels_display>>
       ELSE LET dated == Len(date_range) = 2
                spills == IF dated
                            THEN spills_between(spills_gdf, start_date(date_range),
                                                end_date_ais(date_range))
                            ELSE spills_gdf
                vessels == IF dated
                             THEN vessels_between(vessels_gdf, start_date(date_range),
                                                  end_date_ais(date_range))
                             ELSE vessels_gdf
                vessel_options == {r.mmsi : r \in RowSet(vessels.rows)}
            IN \E selected \in SUBSET vessel_options :
                 /\ selected_vessels_display' = selected
                 /\ spills_gdf' = spills
                 /\ vessels_gdf' = IF selected # {} THEN isin_mmsi(vessels, selected)
                                                   ELSE vessels
                 /\ pc' = "r_start"
  /\ UNCHANGED <<spills_file, ais_file, date_range, st_errors, VesselType,
                 predicate_raises>>
  /\ UnchangedResults

NextLoad ==
  \/ LoadAis
  \/ LoadApp
  \/ FilterSection
  \/ MapSection
  \/ TableSection
  \/ AnalyticsSection

SpecLoad == InitLoad /\ [][NextLoad]_vars

(***************************************************************************)
(* Specification SpecVariants: a run of each of the three scripts (ais.py, *)
(* app.py, part_000) from the same data files and sidebar values.          *)
(*   ais.py  : "l_start" -> "l_loaded" -> "r_start" -> ... -> "r_done"     *)
(*   app.py  : "l_start" -> "a_loaded" -> "a_start" -> "a_mapped"          *)
(*             -> "a_tabled" -> "a_done"                                   *)
(*   part_000: "l_start" -> "p_loaded" -> "p_start" -> ... -> "p_done"     *)
(*   pc = "stopped" : st.stop() was called                                 *)
(*   pc = "raised"  : the script ended with an exception                   *)
(***************************************************************************)
\* The loaders and the stop test of part_000 are those of ais.py.
load_spills_data_part(file) == load_spills_data_ais(file)
load_ais_data_part(file) == load_ais_data_ais(file)
main_stop_part(spills, vessels) == Empty(spills) \/ Empty(vessels)

LoadPart ==
  /\ pc = "l_start"
  /\ LET spills == load_spills_data_part(spills_file)
         vessels == load_ais_data_part(ais_file)
         stop == main_stop_part(spills.value, vessels.value)
     IN /\ spills_gdf' = spills.value
        /\ vessels_gdf' = vessels.value
        /\ st_errors' = spills.errors \o vessels.errors
                          \o (IF stop THEN <<"analysis_stopped">> ELSE <<>>)
        /\ pc' = IF stop THEN "stopped" ELSE "p_loaded"
  /\ UNCHANGED <<spills_file, ais_file, date_range, selected_vessels_display,
                 VesselType, predicate_raises>>
  /\ UnchangedResults

\* The date filter of ais.py and part_000 on both frames.
date_filter_ais(spills, vessels, range) ==
  IF Len(range) = 2
    THEN [spills |-> spills_between(spills, start_date(range), end_date_ais(range)),
          vessels |-> vessels_between(vessels, start_date(range), end_date_ais(range))]
    ELSE [spills |-> spills, vessels |-> vessels]

\* part_000: date filter, then the vessel multiselect.
PartFilterSection ==
  /\ pc = "p_loaded"
  /\ LET dated == date_filter_ais(spills_gdf, vessels_gdf, date_range)
         vessel_options == {r.mmsi : r \in RowSet(dated.vessels.rows)}
     IN \E selected \in SUBSET vessel_options :
          /\ selected_vessels_display' = selected
          /\ spills_gdf' = dated.spills
          /\ vessels_gdf' = IF selected # {} THEN isin_mmsi(dated.vessels, selected)
                                            ELSE dated.vessels
  /\ pc' = "p_start"
  /\ UNCHANGED <<spills_file, ais_file, date_range, st_errors, VesselType,
                 predicate_raises>>
  /\ UnchangedResults

\* Instants in seconds, the unit of the end of app.py's range.
Seconds(t) == t * SecondsPerHour
\* end_date of app.py: one second before the midnight after the last day.
end_date_app(range) == Seconds((range[2] + 1) * HoursPerDay) - 1

\* The date filter of app.py on both frames.
date_filter_app(spills, vessels, range) ==
  IF Len(range) = 2
    THEN LET lo == Seconds(start_date(range))
             hi == end_date_app(range)
         IN [spills |->
               Frame(spills.cols,
                     SelectSeq(spills.rows,
                               LAMBDA r : /\ lo <= Seconds(r.detection_date)
                                          /\ Seconds(r.detection_date) <= hi)),
             vessels |->
               Frame(vessels.cols,
                     SelectSeq(vessels.rows,
                               LAMBDA r : /\ lo <= Seconds(r.timestamp)
                                          /\ Seconds(r.timestamp) <= hi))]
    ELSE [spills |-> spills, vessels |-> vessels]

\* app.py: date filter, then the vessel multiselect.
AppFilterSection ==
  /\ pc = "a_loaded"
  /\ LET dated == date_filter_app(spills_gdf, vessels_gdf, date_range)
         vessel_options == {r.mmsi : r \in RowSet(dated.vessels.rows)}
     IN \E selected \in SUBSET vessel_options :
          /\ selected_vessels_display' = selected
          /\ spills_gdf' = dated.spills
          /\ vessels_gdf' = IF selected # {} THEN isin_mmsi(dated.vessels, selected)
                                            ELSE dated.vessels
  /\ pc' = "a_start"
  /\ UNCHANGED <<spills_file, ais_file, date_range, st_errors, VesselType,
                 predicate_raises>>
  /\ UnchangedResults

\* app.py, map: with spills, the only call of find_candidates and the
\* markers; without spills a warning, and candidates_df stays unbound.
AppMapSection ==
  /\ pc = "a_start"
  /\ IF Empty(spills_gdf)
       THEN UNCHANGED <<candidates_df, candidate_vessels_fg>>
       ELSE LET found == find_candidates_app(spills_gdf, vessels_gdf, time_window_hours)
            IN /\ candidates_df' = found
               /\ candidate_vessels_fg' =
                    IF Empty(found) THEN candidate_vessels_fg ELSE markers(found)
  /\ pc' = "a_mapped"
  /\ UNCHANGED <<spills_gdf, vessels_gdf, time_window_hours,
                 candidates_df_for_analytics, prime_suspects_df, display_df,
                 ship_incident_counts, ship_area_sum, spill_candidate_counts,
                 run_inputs, report_outputs>>

\* app.py, candidate table: reads candidates_df, a NameError if the name
\* was never bound.
AppTableSection ==
  /\ pc = "a_mapped"
  /\ IF candidates_df = Undefined
       THEN pc' = "raised" /\ UNCHANGED display_df
       ELSE /\ pc' = "a_tabled"
            /\ display_df' = IF Empty(candidates_df) THEN display_df
                             ELSE candidate_table(candidates_df)
  /\ UNCHANGED <<spills_gdf, vessels_gdf, time_window_hours, candidates_df,
                 candidates_df_for_analytics, prime_suspects_df,
                 candidate_vessels_fg, ship_incident_counts, ship_area_sum,
                 spill_candidate_counts, run_inputs, report_outputs>>

\* app.py, analytics tabs, on candidates_df itself.
AppAnalyticsSection ==
  /\ pc = "a_tabled"
  /\ IF ~Empty(candidates_df)
       THEN LET unique_incidents == drop_duplicates(candidates_df.rows) IN
            /\ ship_incident_counts' = groupby_mmsi_size(unique_incidents)
            /\ ship_area_sum' = groupby_mmsi_area_sum(unique_incidents)
            /\ spill_candidate_counts' = groupby_spill_nunique(candidates_df.rows)
            /\ candidates_df' = with_time_to_detection(candidates_df)
            /\ prime_suspects_df' = prime_suspects_frame(candidates_df)
            /\ vessel_type_analysis' =
                 IF VesselType # NoMapping
                   THEN groupby_VesselType(unique_incidents, VesselType)
                   ELSE vessel_type_analysis
       ELSE UNCHANGED <<ship_incident_counts, ship_area_sum,
                        spill_candidate_counts, candidates_df, prime_suspects_df,
                        vessel_type_analysis>>
  /\ pc' = "a_done"
  /\ UNCHANGED <<spills_gdf, vessels_gdf, time_window_hours,
                 candidates_df_for_analytics, candidate_vessels_fg, display_df,
                 run_inputs, reportable_incidents_df, selected_spill_id,
                 report_bytes>>

NextVariants ==
  \/ LoadAis
  \/ FilterSection
  \/ MapSection
  \/ TableSection
  \/ AnalyticsSection
  \/ LoadApp
  \/ AppFilterSection
  \/ AppMapSection
  \/ AppTableSection
  \/ AppAnalyticsSection
  \/ LoadPart
  \/ PartFilterSection
  \/ PartMapSection
  \/ PartTableSection
  \/ PartAnalyticsSection
  \/ PartReportSection

SpecVariants == InitLoad /\ [][NextVariants]_vars

(***************************************************************************)
(* Properties.                                                             *)
(***************************************************************************)
\* Plane geometry of a point and a square, stated independently of the join.
Covers(poly, pt) ==
  /\ poly.xmin <= pt[1] /\ pt[1] <= poly.xmax
  /\ poly.ymin <= pt[2] /\ pt[2] <= poly.ymax
OnBoundary(poly, pt) ==
  /\ Covers(poly, pt)
  /\ pt[1] \in {poly.xmin, poly.xmax} \/ pt[2] \in {poly.ymin, poly.ymax}
StrictlyInside(poly, pt) == Covers(poly, pt) /\ ~OnBoundary(poly, pt)

Matched == pc \in {"matched", "ranked"} /\ candidates_df.kind = "frame"
InputRows(df) == RowSet(df.rows)
CandidateRows == RowSet(candidates_df.rows)
RowsOfPair(v, s) ==
  {k \in 1..Len(candidates_df.rows) :
     /\ candidates_df.rows[k].index = v.index
     /\ candidates_df.rows[k].spill_id = s.spill_id}
Qualifies(v, s, w) ==
  /\ StrictlyInside(s.geometry, v.geometry)
  /\ s.detection_date - w <= v.timestamp
  /\ v.timestamp <= s.detection_date

\* C1: every Candidate row has detection_time - window <= observed_time <=
\* detection_time, so its time_to_detection lies in [0, window].
C1_TemporalSoundness ==
  Matched =>
    \A r \in CandidateRows :
      /\ r.detection_date - time_window_hours <= r.timestamp
      /\ r.timestamp <= r.detection_date
      /\ time_to_detection(r) \in 0..time_window_hours

\* C1 witness: a matched state holding a Candidate exactly at the far end of
\* the window while a position inside the same slick but older than the
\* window is left out.
C1_Witness ==
  /\ pc = "matched" /\ candidates_df.kind = "frame"
  /\ \E r \in CandidateRows : time_to_detection(r) = time_window_hours
  /\ \E v \in InputRows(vessels_gdf), s \in InputRows(spills_gdf) :
       /\ StrictlyInside(s.geometry, v.geometry)
       /\ v.timestamp < s.detection_date - time_window_hours
       /\ RowsOfPair(v, s) = {}

\* C2: every (position, spill) pair with the position inside the polygon and
\* inside the window has exactly one Candidate row, carrying the values of
\* the pair; nothing is deduplicated by (spill_id, vessel_id), so the number
\* of rows is the number of qualifying pairs.
C2_Completeness ==
  pc = "matched" /\ spills_gdf.kind = "frame" /\ vessels_gdf.kind = "frame" =>
    /\ candidates_df.kind = "frame"
    /\ \A v \in InputRows(vessels_gdf), s \in InputRows(spills_gdf) :
         Qualifies(v, s, time_window_hours) =>
           /\ Cardinality(RowsOfPair(v, s)) = 1
           /\ JoinedRow(v, s) \in CandidateRows
    /\ Len(candidates_df.rows) =
         Cardinality({p \in InputRows(vessels_gdf) \X InputRows(spills_gdf) :
                        Qualifies(p[1], p[2], time_window_hours)})

\* C2 witness: one vessel with two qualifying positions for one spill, both
\* present as Candidate rows.
C2_Witness ==
  /\ pc = "matched" /\ candidates_df.kind = "frame"
  /\ \E v1 \in InputRows(vessels_gdf), v2 \in InputRows(vessels_gdf),
        s \in InputRows(spills_gdf) :
       /\ v1.index # v2.index /\ v1.mmsi = v2.mmsi
       /\ Qualifies(v1, s, time_window_hours)
       /\ Qualifies(v2, s, time_window_hours)
       /\ RowsOfPair(v1, s) # {} /\ RowsOfPair(v2, s) # {}

\* C3: every Candidate row pairs a position of the vessel frame with a spill
\* of the spill frame whose polygon contains the position.
C3_SpatialSoundness ==
  Matched =>
    \A r \in CandidateRows :
      \E v \in InputRows(vessels_gdf), s \in InputRows(spills_gdf) :
        /\ r = JoinedRow(v, s)
        /\ Covers(s.geometry, v.geometry)

\* C3 witness: a position outside a slick, inside its time window, gives no
\* Candidate for it while another position does.
C3_Witness ==
  /\ pc = "matched" /\ candidates_df.kind = "frame"
  /\ \E v \in InputRows(vessels_gdf), s \in InputRows(spills_gdf) :
       /\ ~Covers(s.geometry, v.geometry)
       /\ s.detection_date - time_window_hours <= v.timestamp
       /\ v.timestamp <= s.detection_date
       /\ RowsOfPair(v, s) = {}
       /\ \E r \in CandidateRows : r.spill_id = s.spill_id

\* C4 as stated: a position exactly on the boundary of a slick, inside the
\* window, yields a Candidate for that slick.
C4_BoundaryIncluded ==
  pc = "matched" /\ candidates_df.kind = "frame" =>
    \A v \in InputRows(vessels_gdf), s \in InputRows(spills_gdf) :
      /\ OnBoundary(s.geometry, v.geometry)
      /\ s.detection_date - time_window_hours <= v.timestamp
      /\ v.timestamp <= s.detection_date
      => RowsOfPair(v, s) # {}

\* C4 amended: a position exactly on the boundary of a slick yields no
\* Candidate for that slick (the join predicate is "within").
C4_BoundaryExcluded ==
  Matched =>
    \A v \in InputRows(vessels_gdf), s \in InputRows(spills_gdf) :
      OnBoundary(s.geometry, v.geometry) => RowsOfPair(v, s) = {}

\* C4 witness: a boundary position inside the window of its slick, matched,
\* and Candidate of the other slick only.
C4_Witness ==
  /\ pc = "matched" /\ candidates_df.kind = "frame"
  /\ \E v \in InputRows(vessels_gdf), s \in InputRows(spills_gdf) :
       /\ OnBoundary(s.geometry, v.geometry)
       /\ s.detection_date - time_window_hours <= v.timestamp
       /\ v.timestamp <= s.detection_date
       /\ \E r \in CandidateRows : r.index = v.index /\ r.spill_id # s.spill_id

\* C5: a call with a window at least as wide, on the same inputs, returns
\* every Candidate the narrower call returned.
C5_WindowMonotone ==
  [][(pc = "matched" /\ pc' = "matched"
      /\ time_window_hours <= time_window_hours')
     => CandidateRows \subseteq RowSet(candidates_df'.rows)]_vars

\* C5 witness: at the widest window the Candidates hold a row that only this
\* window admits next to one that every window admits.
C5_Witness ==
  /\ pc = "matched" /\ candidates_df.kind = "frame"
  /\ time_window_hours = MaxWindow
  /\ \E r \in CandidateRows : time_to_detection(r) = MaxWindow
  /\ \E r \in CandidateRows : time_to_detection(r) = 0

\* C6: with no spill or no vessel position the result is an empty Candidate
\* collection and no exception, in each variant.
C6_EmptyInputSafe ==
  pc = "matched" /\ (spills_gdf.rows = <<>> \/ vessels_gdf.rows = <<>>) =>
    candidates_df.kind = "frame" /\ Empty(candidates_df)

\* C6 witness: matched with an empty spill frame and a non-empty vessel frame.
C6_Witness ==
  /\ pc = "matched"
  /\ spills_gdf.kind = "frame" /\ spills_gdf.rows = <<>>
  /\ vessels_gdf.rows # <<>>
  /\ candidates_df = EmptyGeoDataFrame

C8_Purity ==
  [][/\ spills_gdf' = spills_gdf
     /\ vessels_gdf' = vessels_gdf
     /\ pc' = "ranked" =>
          /\ candidates_df'.rows = candidates_df.rows
          /\ ship_incident_counts' =
               groupby_mmsi_size(drop_duplicates(candidates_df'.rows))
          /\ ship_area_sum' =
               groupby_mmsi_area_sum(drop_duplicates(candidates_df'.rows))
          /\ spill_candidate_counts' =
               groupby_spill_nunique(candidates_df'.rows)]_vars

\* C8 witness: analytics done on Candidates of which one is not a prime
\* suspect.
C8_Witness ==
  /\ pc = "ranked"
  /\ "time_to_detection" \in candidates_df.cols
  /\ \E r \in CandidateRows : r \notin RowSet(prime_suspects_df.rows)
  /\ ship_incident_counts # NoMapping

\* C9: every row reported as a spill's prime suspect is a Candidate of that
\* spill with the least time_to_detection among the spill's Candidates.
C9_PrimeSuspectIsArgMin ==
  pc = "ranked" =>
    \A r \in RowSet(prime_suspects_df.rows) :
      /\ r \in CandidateRows
      /\ \A c \in CandidateRows :
           c.spill_id = r.spill_id =>
             time_to_detection(r) <= time_to_detection(c)

\* C10: the prime-suspect result holds exactly one row for each spill that
\* has a Candidate and none for a spill without Candidate.
C10_PrimeSuspectCardinality ==
  pc = "ranked" =>
    \A s \in SpillIds :
      Len(SelectSeq(prime_suspects_df.rows, LAMBDA r : r.spill_id = s)) =
        (IF \E c \in CandidateRows : c.spill_id = s THEN 1 ELSE 0)

\* C11: when several Candidates of one spill share the least
\* time_to_detection, the prime suspect reported for that spill is the first
\* of them in the row order of the Candidates, and no other row.
C11_TieBreakFirst ==
  pc = "ranked" =>
    \A s \in SpillIds :
      LET rows == candidates_df.rows
          minimal == {k \in 1..Len(rows) :
                        /\ rows[k].spill_id = s
                        /\ \A c \in CandidateRows :
                             c.spill_id = s =>
                               time_to_detection(rows[k]) <= time_to_detection(c)}
          first == CHOOSE k \in minimal : \A j \in minimal : k <= j
      IN Cardinality(minimal) >= 2 =>
           {r \in RowSet(prime_suspects_df.rows) : r.spill_id = s} = {rows[first]}

\* The spills a vessel is paired with among the Candidates, and the vessels
\* a spill is paired with.
SpillsOfVessel(m) == {r.spill_id : r \in {q \in CandidateRows : q.mmsi = m}}
VesselsOfSpill(s) == {r.mmsi : r \in {q \in CandidateRows : q.spill_id = s}}
RECURSIVE AreaOfSpills(_)
AreaOfSpills(S) ==
  IF S = {} THEN 0
  ELSE LET s == CHOOSE x \in S : TRUE IN SpillArea[s] + AreaOfSpills(S \ {s})
SamePair(r1, r2) ==
  r1.index # r2.index /\ r1.mmsi = r2.mmsi /\ r1.spill_id = r2.spill_id

\* C12: the incident count of every vessel among the Candidates is the
\* number of distinct spills it is paired with, not its number of rows.
C12_IncidentCounts ==
  pc = "ranked" /\ ~Empty(candidates_df) =>
    /\ DOMAIN ship_incident_counts = {r.mmsi : r \in CandidateRows}
    /\ \A m \in DOMAIN ship_incident_counts :
         ship_incident_counts[m] = Cardinality(SpillsOfVessel(m))

\* C12 witness: a vessel with two qualifying positions for one spill counts
\* one incident.
C12_Witness ==
  /\ pc = "ranked"
  /\ \E r1 \in CandidateRows, r2 \in CandidateRows :
       /\ SamePair(r1, r2)
       /\ r1.mmsi \in DOMAIN ship_incident_counts
       /\ ship_incident_counts[r1.mmsi] = 1

\* C13: the area total of every vessel among the Candidates is the sum of
\* the areas of the distinct spills it is paired with, each taken once.
C13_AreaSums ==
  pc = "ranked" /\ ~Empty(candidates_df) =>
    /\ DOMAIN ship_area_sum = {r.mmsi : r \in CandidateRows}
    /\ \A m \in DOMAIN ship_area_sum :
         ship_area_sum[m] = AreaOfSpills(SpillsOfVessel(m))

\* C13 witness: a vessel with two positions inside both spills is charged
\* the area of each spill once.
C13_Witness ==
  /\ pc = "ranked"
  /\ \E r1 \in CandidateRows, r2 \in CandidateRows :
       /\ SamePair(r1, r2)
       /\ SpillsOfVessel(r1.mmsi) = SpillIds
       /\ r1.mmsi \in DOMAIN ship_area_sum
       /\ ship_area_sum[r1.mmsi] = AreaOfSpills(SpillIds)

\* C14: the vessel rollups shown for a Candidate collection that holds a
\* further row for an already present (vessel, spill) pair are those of the
\* collection without that row.
C14_DedupInvariance ==
  pc = "ranked" =>
    \A k \in 1..Len(candidates_df.rows) :
      (\E j \in 1..Len(candidates_df.rows) :
          SamePair(candidates_df.rows[j], candidates_df.rows[k])) =>
        LET without == Pick(candidates_df.rows,
                            (1..Len(candidates_df.rows)) \ {k}, 1)
            once == drop_duplicates(without)
        IN /\ ship_incident_counts = groupby_mmsi_size(once)
           /\ ship_area_sum = groupby_mmsi_area_sum(once)

\* C14 witness: two Candidate rows of one vessel for one spill at different
\* times, the vessel charged the area of that spill once.
C14_Witness ==
  /\ pc = "ranked"
  /\ \E r1 \in CandidateRows, r2 \in CandidateRows :
       /\ SamePair(r1, r2)
       /\ r1.timestamp # r2.timestamp
       /\ ship_area_sum # NoMapping
       /\ ship_area_sum[r1.mmsi] = SpillArea[r1.spill_id]

\* C15: the candidate count of every spill among the Candidates is the
\* number of distinct vessels paired with it.
C15_SpillCandidateCounts ==
  pc = "ranked" /\ ~Empty(candidates_df) =>
    /\ DOMAIN spill_candidate_counts = {r.spill_id : r \in CandidateRows}
    /\ \A s \in DOMAIN spill_candidate_counts :
         spill_candidate_counts[s] = Cardinality(VesselsOfSpill(s))

\* C15 witness: a spill with two Candidate rows of one vessel counts one
\* candidate vessel.
C15_Witness ==
  /\ pc = "ranked"
  /\ \E s \in SpillIds :
       /\ Len(SelectSeq(candidates_df.rows, LAMBDA r : r.spill_id = s)) >= 2
       /\ s \in DOMAIN spill_candidate_counts
       /\ spill_candidate_counts[s] = 1

\* State of a run right after the load section, and what the files hold.
Loaded == pc \in {"stopped", "l_loaded", "a_loaded"}
SpillSchemaOk ==
  spills_file.readable /\ RequiredSpillCols \subseteq spills_file.cols
AisSchemaOk ==
  ais_file.readable /\ RequiredAisCols \subseteq ais_file.cols
SchemaFailure ==
  \/ spills_file.readable /\ ~(RequiredSpillCols \subseteq spills_file.cols)
  \/ ais_file.readable /\ ~(RequiredAisCols \subseteq ais_file.cols)
Shown(message) == \E i \in 1..Len(st_errors) : st_errors[i] = message
NoResults ==
  /\ candidates_df = Undefined
  /\ candidates_df_for_analytics = Undefined
  /\ prime_suspects_df = Undefined
  /\ candidate_vessels_fg = Undefined
  /\ display_df = Undefined
  /\ ship_incident_counts = NoMapping
  /\ ship_area_sum = NoMapping
  /\ spill_candidate_counts = NoMapping
\* The texts the two strategies read for a feature, and the one the file's
\* columns select.
HasDateAndTime == "date" \in spills_file.cols /\ "time" \in spills_file.cols
FieldsText(rec) ==
  [parses |-> rec.date.parses /\ rec.time.parses,
   instant |-> rec.date.instant + rec.time.instant]
NameText(rec) == SlickNameText[rec.slick_name]
SelectedText(rec) == IF HasDateAndTime THEN FieldsText(rec) ELSE NameText(rec)
Retained(rec) == \E r \in RowSet(spills_gdf.rows) : r.spill_id = rec.slick_name
LineUsable(line) ==
  line.BaseDateTime.parses /\ line.latitude # Null /\ line.longitude # Null

\* C16: when the spill file lacks the name or the area field, or the AIS
\* file lacks the identifier, latitude, longitude or timestamp column, the
\* run is stopped at the load section: no filter is applied and there are
\* no Candidates, prime suspects or rollups, in this and every later state.
C16_SchemaFailureStops ==
  pc # "l_start" /\ SchemaFailure =>
    /\ pc = "stopped"
    /\ Shown("analysis_stopped")
    /\ selected_vessels_display = {}
    /\ NoResults

\* C16 witness: stopped on a spill file without area field although the AIS
\* file loaded positions.
C16_Witness ==
  /\ pc = "stopped"
  /\ spills_file.readable /\ "area_sys" \notin spills_file.cols
  /\ Shown("spills_missing_fields")
  /\ AisSchemaOk /\ vessels_gdf.rows # <<>>

\* C17: every spill record returned by the loader has a detection date; the
\* features whose timestamp text does not parse are left out, and the others
\* are returned, in file order, as a frame.
C17_SpillLoaderInvariant ==
  Loaded /\ SpillSchemaOk =>
    LET parsed == SelectSeq(spills_file.rows, LAMBDA f : SelectedText(f).parses)
    IN /\ \A r \in RowSet(spills_gdf.rows) : r.detection_date \in Times
       /\ Len(spills_gdf.rows) = Len(parsed)
       /\ \A i \in 1..Len(parsed) :
            spills_gdf.rows[i].spill_id = parsed[i].slick_name
       /\ parsed # <<>> => spills_gdf.kind = "frame"

\* C17 witness: of two features one has no parseable timestamp; the other
\* is returned and the run goes on.
C17_Witness ==
  /\ pc \in {"l_loaded", "a_loaded"}
  /\ Len(spills_file.rows) = 2
  /\ Len(spills_gdf.rows) = 1
  /\ \E i \in 1..2 : ~SelectedText(spills_file.rows[i]).parses

\* C18: every position returned by the loader has a timestamp, a latitude
\* and a longitude; a line is left out exactly when its timestamp does not
\* parse or a coordinate is missing, and the others are returned with their
\* values.
C18_VesselLoaderInvariant ==
  Loaded /\ AisSchemaOk =>
    /\ \A r \in RowSet(vessels_gdf.rows) :
         /\ r.timestamp \in Times
         /\ r.geometry[1] # Null /\ r.geometry[2] # Null
         /\ LET line == ais_file.rows[r.index + 1]
            IN /\ r.mmsi = line.mmsi
               /\ r.geometry = <<line.longitude, line.latitude>>
               /\ r.timestamp = line.BaseDateTime.instant
    /\ {r.index + 1 : r \in RowSet(vessels_gdf.rows)} =
         {i \in 1..Len(ais_file.rows) : LineUsable(ais_file.rows[i])}
    /\ Len(vessels_gdf.rows) =
         Cardinality({i \in 1..Len(ais_file.rows) : LineUsable(ais_file.rows[i])})

\* C18 witness: the first line has no latitude; the second is returned with
\* its line number as label.
C18_Witness ==
  /\ pc \in {"l_loaded", "a_loaded"}
  /\ Len(ais_file.rows) >= 2
  /\ ais_file.rows[1].latitude = Null
  /\ \E r \in RowSet(vessels_gdf.rows) : r.index = 1
  /\ Len(vessels_gdf.rows) = Len(ais_file.rows) - 1

\* A file with the required fields of which no record survives the clean-up.
AllSpillsDropped ==
  /\ SpillSchemaOk /\ spills_file.rows # <<>>
  /\ \A f \in RowSet(spills_file.rows) : ~SelectedText(f).parses
AllLinesDropped ==
  /\ AisSchemaOk /\ ais_file.rows # <<>>
  /\ \A l \in RowSet(ais_file.rows) : ~LineUsable(l)

C20_DroppedOnlyIfNeitherParses ==
  Loaded /\ SpillSchemaOk =>
    \A f \in RowSet(spills_file.rows) :
      /\ \A r \in RowSet(spills_gdf.rows) :
           r.spill_id = f.slick_name =>
             r.detection_date = SelectedText(f).instant
      /\ ~Retained(f) =>
           /\ ~(HasDateAndTime /\ FieldsText(f).parses)
           /\ ~NameText(f).parses

\* C20 amended: the strategy is chosen by the columns of the file, and a
\* feature is left out exactly when the chosen strategy gives no timestamp,
\* whatever the other strategy would give.
C20_DroppedIffSelectedFails ==
  Loaded /\ SpillSchemaOk =>
    \A f \in RowSet(spills_file.rows) :
      /\ \A r \in RowSet(spills_gdf.rows) :
           r.spill_id = f.slick_name =>
             r.detection_date = SelectedText(f).instant
      /\ Retained(f) <=> SelectedText(f).parses

\* C20 witness: a file with date and time fields where the date of S1 is no
\* date: S1 is left out although its name is a timestamp, S2 is returned.
C20_Witness ==
  /\ pc \in {"l_loaded", "a_loaded"}
  /\ HasDateAndTime
  /\ \E f \in RowSet(spills_file.rows) :
       /\ ~FieldsText(f).parses /\ NameText(f).parses
       /\ ~Retained(f)
  /\ spills_gdf.rows # <<>>

\* ---------------------------------------------------------------------------
\* Filters, variants and report
\* ---------------------------------------------------------------------------

\* Sum of the values of a mapping (a pandas Series of counts).
RECURSIVE SumOf(_)
SumOf(f) ==
  IF DOMAIN f = {} THEN 0
  ELSE LET k == CHOOSE x \in DOMAIN f : TRUE IN
       f[k] + SumOf([j \in DOMAIN f \ {k} |-> f[j]])

\* The distinct (vessel, spill) pairs among the Candidates.
CandidatePairs == {<<r.mmsi, r.spill_id>> : r \in CandidateRows}

\* C27: the per-vessel incident counts and the per-spill candidate counts
\* both add up to the number of distinct (vessel, spill) pairs among the
\* Candidates.
C27_AggregateConsistency ==
  pc = "ranked" /\ ~Empty(candidates_df) =>
    /\ SumOf(ship_incident_counts) = Cardinality(CandidatePairs)
    /\ SumOf(spill_candidate_counts) = Cardinality(CandidatePairs)

\* C27 witness: the aggregates were computed from Candidates holding a
\* repeated pair and a vessel paired with two spills.
C27_Witness ==
  /\ pc = "ranked"
  /\ \E r1 \in CandidateRows, r2 \in CandidateRows : SamePair(r1, r2)
  /\ \E m \in DOMAIN ship_incident_counts : ship_incident_counts[m] = 2
  /\ Len(candidates_df.rows) > Cardinality(CandidatePairs)
  /\ SumOf(spill_candidate_counts) = 2

\* The distinct (vessel, spill) pairs whose vessel has the type t.
PairsOfType(t) == {p \in CandidatePairs : VesselType[p[1]] = t}

\* The per-type incident counts add up to n.
TypeCountsAddUpTo(n) ==
  SumOf([t \in DOMAIN vessel_type_analysis |->
           vessel_type_analysis[t].incident_count]) = n

TypesRanked ==
  pc = "ranked" /\ ~Empty(candidates_df) /\ VesselType # NoMapping

\* C23 as stated: per vessel type the incident count is the number of
\* distinct (vessel, spill) pairs of vessels of that type and the area sum
\* takes each such pair's spill area once, and the incident counts of the
\* types add up to the number of all distinct pairs.
C23_TypeCountsCoverAllPairs ==
  TypesRanked =>
    /\ \A t \in DOMAIN vessel_type_analysis :
         /\ vessel_type_analysis[t].incident_count = Cardinality(PairsOfType(t))
         /\ vessel_type_analysis[t].total_area_sq_km =
              SumOf([p \in PairsOfType(t) |-> SpillArea[p[2]]])
    /\ TypeCountsAddUpTo(Cardinality(CandidatePairs))

\* C23 amended: the types listed are the type values of the Candidates'
\* vessels, a vessel without a type value is in no group, per type the
\* count and the area sum are taken over the distinct pairs of that type,
\* and the counts add up to the number of distinct pairs whose vessel has a
\* type value.
C23_TypeCountsCoverTypedPairs ==
  TypesRanked =>
    /\ DOMAIN vessel_type_analysis =
         {VesselType[p[1]] : p \in CandidatePairs} \ {NaN}
    /\ \A t \in DOMAIN vessel_type_analysis :
         /\ vessel_type_analysis[t].incident_count = Cardinality(PairsOfType(t))
         /\ vessel_type_analysis[t].total_area_sq_km =
              SumOf([p \in PairsOfType(t) |-> SpillArea[p[2]]])
    /\ TypeCountsAddUpTo(Cardinality(CandidatePairs \ PairsOfType(NaN)))

\* C23 witness: a tanker paired with two spills and a vessel without a type
\* value are both among the Candidates when the type table is built.
C23_Witness ==
  /\ TypesRanked
  /\ PairsOfType(NaN) # {}
  /\ DOMAIN vessel_type_analysis = {"Tanker"}
  /\ vessel_type_analysis["Tanker"].incident_count = 2

\* The report of part_000 was generated for the selected incident.
Reported == pc = "p_done" /\ selected_spill_id # NaN
CandidatesOfSelected ==
  SelectSeq(candidates_df_for_analytics.rows,
            LAMBDA r : r.spill_id = selected_spill_id)
\* Whole minutes of a duration given in hours, and of a formatted duration.
WholeMinutes(h) == h * (SecondsPerHour \div SecondsPerMinute)
WrittenMinutes(text) ==
  text.hours * (SecondsPerHour \div SecondsPerMinute) + text.minutes

\* C28: for every Candidate listed in the report, the hours and minutes
\* written as its time to detection amount to the whole duration between
\* its position and the detection of the spill, also when that duration is
\* a day or longer.
C28_ReportDurationIsFull ==
  Reported =>
    \A i \in 1..Len(report_bytes.table) :
      WrittenMinutes(report_bytes.table[i].time_to_detection)
        = WholeMinutes(time_to_detection(CandidatesOfSelected[i]))

\* C29: the number of candidate vessels stated in the conclusion of the
\* report is the candidate count of the selected spill in the incident
\* selection table, the number of distinct vessels among its Candidates.
C29_ReportCountIsTableCount ==
  Reported =>
    /\ reportable_incidents_df[selected_spill_id]
         = Cardinality({r.mmsi : r \in RowSet(CandidatesOfSelected)})
    /\ report_bytes.candidate_count = reportable_incidents_df[selected_spill_id]

\* The script that is running, and its states after the filters.
AisStates == {"r_start", "r_mapped", "r_tabled", "r_done"}
AppStates == {"a_start", "a_mapped", "a_tabled", "a_done"}
PartStates == {"p_start", "p_mapped", "p_tabled", "p_ranked", "p_done"}
Filtered == pc \in AisStates \cup AppStates \cup PartStates \cup {"raised"}
MatchedRun ==
  /\ pc \in (AisStates \cup AppStates \cup PartStates) \ {"r_start", "a_start", "p_start"}
  /\ candidates_df.kind = "frame"
RunDone == pc \in {"r_done", "a_done", "p_done"}
Dated == Len(date_range) = 2

\* What the loaders of the running script returned, and what its date
\* filter keeps of it.
LoadedSpills ==
  IF pc \in AppStates THEN load_spills_data_app(spills_file).value
  ELSE load_spills_data_ais(spills_file).value
LoadedVessels ==
  IF pc \in AppStates THEN load_ais_data_app(ais_file).value
  ELSE load_ais_data_ais(ais_file).value

\* The selected range read as a closed interval of instants: from the
\* midnight that opens the first day to the midnight that closes the last.
WithinRange(t) ==
  date_range[1] * HoursPerDay <= t /\ t <= (date_range[2] + 1) * HoursPerDay
\* The instants the date filter of the running script keeps: the range,
\* in app.py without its closing midnight.
KeptByDateFilter(t) ==
  Dated => /\ WithinRange(t)
           /\ pc \in AppStates => t < (date_range[2] + 1) * HoursPerDay

C24_EmptySpillsHandled ==
  Filtered /\ Empty(spills_gdf) =>
    /\ pc # "raised"
    /\ candidates_df.kind = "frame" => Empty(candidates_df)
    /\ RunDone => candidates_df.kind = "frame"
    /\ candidate_vessels_fg = Undefined /\ display_df = Undefined
    /\ ship_incident_counts = NoMapping /\ ship_area_sum = NoMapping
    /\ spill_candidate_counts = NoMapping
    /\ Empty(prime_suspects_df)

\* What ais.py computes from the same files, window, date range and vessel
\* selection.
CandidatesOfAis ==
  LET dated == date_filter_ais(load_spills_data_ais(spills_file).value,
                               load_ais_data_ais(ais_file).value, date_range)
      vessels == IF selected_vessels_display # {}
                   THEN isin_mmsi(dated.vessels, selected_vessels_display)
                   ELSE dated.vessels
  IN find_candidates_ais(dated.spills, vessels, time_window_hours)

\* C25: on the same loaded collections, window, date range and vessel
\* selection, app.py and part_000 compute the Candidate set of ais.py,
\* also when a record is timestamped at the midnight after the last day.
C25_VariantsAgree ==
  pc \in {"a_mapped", "p_mapped"} /\ candidates_df.kind = "frame" =>
    CandidateRows = RowSet(CandidatesOfAis.rows)

\* The Candidates of the running script without the date filter, under the
\* same window and vessel selection.
CandidatesUndated ==
  LET vessels == IF selected_vessels_display # {}
                   THEN isin_mmsi(LoadedVessels, selected_vessels_display)
                   ELSE LoadedVessels
  IN IF pc \in AppStates
       THEN find_candidates_app(LoadedSpills, vessels, time_window_hours)
       ELSE IF pc \in PartStates
         THEN find_candidates_part(LoadedSpills, vessels, time_window_hours)
         ELSE find_candidates_ais(LoadedSpills, vessels, time_window_hours)
OfSpill(rows, z) == {r \in rows : r.spill_id = z.spill_id}

\* C26 as stated: for a spill the date filter retains, the Candidates found
\* with the filter are those found without it.
C26_DateFilterLosesNoCandidate ==
  MatchedRun /\ Dated =>
    \A z \in RowSet(spills_gdf.rows) :
      OfSpill(CandidateRows, z) = OfSpill(RowSet(CandidatesUndated.rows), z)

\* C26 amended: for a spill the date filter retains, the Candidates found
\* with the filter are those found without it whose position the date
\* filter keeps as well.
C26_DateFilterKeepsDatedCandidates ==
  MatchedRun /\ Dated =>
    \A z \in RowSet(spills_gdf.rows) :
      OfSpill(CandidateRows, z) =
        {r \in OfSpill(RowSet(CandidatesUndated.rows), z) :
           KeptByDateFilter(r.timestamp)}

\* C26 witness: a retained spill has a Candidate without the date filter
\* whose position is earlier than the start of the range, and another that
\* the filtered run reports.
C26_Witness ==
  /\ MatchedRun /\ Dated
  /\ \E z \in RowSet(spills_gdf.rows) :
       /\ \E r \in OfSpill(RowSet(CandidatesUndated.rows), z) :
            r.timestamp < date_range[1] * HoursPerDay
       /\ OfSpill(CandidateRows, z) # {}

\* C22: when the containment predicate fails on the invalid polygon of one
\* spill, find_candidates still returns a frame: it holds the Candidates of
\* every other spill and none of the spill with the invalid polygon.
C22_ContainmentFailureIsLocal ==
  /\ pc = "matched" /\ predicate_raises
  /\ \E z \in RowSet(spills_gdf.rows) : ~is_valid(z.geometry)
  => /\ candidates_df.kind = "frame"
     /\ \A r \in CandidateRows :
          \E z \in RowSet(spills_gdf.rows) :
            z.spill_id = r.spill_id /\ is_valid(z.geometry)
     /\ \A v \in RowSet(vessels_gdf.rows), z \in RowSet(spills_gdf.rows) :
          is_valid(z.geometry) /\ Qualifies(v, z, time_window_hours) =>
            \E r \in CandidateRows :
              r.index = v.index /\ r.spill_id = z.spill_id

====
